---- MODULE Spec2Model ----
(***************************************************************************)
(* Wealth Calculator: the Calculate handler of complex_compounder_v3.py    *)
(* and complex_compounder_v4.py, as one state machine driven by the same   *)
(* widget values.                                                          *)
(*                                                                         *)
(* Numbers.  The handler computes with Python floats.  They are modelled   *)
(* by the exact rationals they approximate (numerator and denominator of   *)
(* arbitrary size), so rounding is not modelled; a float operation that    *)
(* raises (division by zero) yields a value carrying the exception.        *)
(***************************************************************************)
EXTENDS Integers, Sequences, FiniteSets, TLC

VARIABLES
  scope,    \* which bounded sample of the widgets' ranges is explored
  inputs,   \* the six widget values (Streamlit session state)
  page,     \* what each version's last script run rendered
  prev      \* observer: a snapshot of one earlier Calculate request

vars == <<scope, inputs, page, prev>>

(***************************************************************************)
(* Binding a value to a name: the operand is evaluated once, whatever the  *)
(* number of its uses in Op.                                               *)
(***************************************************************************)
Bind(v, Op(_)) == CHOOSE r \in {Op(x) : x \in {v}} : TRUE

Bind2(u, v, Op(_, _)) == CHOOSE r \in {Op(x, y) : x \in {u}, y \in {v}} : TRUE

(***************************************************************************)
(* Arbitrary-size naturals: little-endian sequences of limbs below Base,   *)
(* without leading zero limbs (zero is the empty sequence).                *)
(***************************************************************************)
Base == 1000

Min(a, b) == IF a < b THEN a ELSE b

Max(a, b) == IF a < b THEN b ELSE a

\* the function f on 1..n as a sequence, its elements evaluated once
Tuple(f, n) == SubSeq(f, 1, n)

Limb(a, i) == IF i >= 1 /\ i <= Len(a) THEN a[i] ELSE 0

RECURSIVE TopNonZero(_, _, _)
\* the largest index in lo..hi holding a non-zero limb; lo - 1 when none does
TopNonZero(a, lo, hi) ==
  IF lo > hi THEN lo - 1
  ELSE IF lo = hi THEN (IF a[lo] = 0 THEN lo - 1 ELSE lo)
  ELSE IF \E k \in ((lo + hi + 1) \div 2)..hi : a[k] # 0
       THEN TopNonZero(a, (lo + hi + 1) \div 2, hi)
       ELSE TopNonZero(a, lo, (lo + hi + 1) \div 2 - 1)

Trim(a) == Bind(a, LAMBDA x : SubSeq(x, 1, TopNonZero(x, 1, Len(x))))

RECURSIVE NatOf(_)
NatOf(k) == IF k = 0 THEN <<>> ELSE <<k % Base>> \o NatOf(k \div Base)

\* one parallel pass of carries: every column keeps its low limb and hands
\* the rest to the next column
CarryPass(c) ==
  Bind(c, LAMBDA x :
    Tuple([k \in 1..(Len(x) + 1) |->
             (Limb(x, k) % Base) + (Limb(x, k - 1) \div Base)], Len(x) + 1))

\* columns (each below 2^31) to limbs: four passes leave every column at
\* most Base, then the remaining unit carries are resolved at once
Carry(c) ==
  Bind(CarryPass(CarryPass(CarryPass(CarryPass(c)))), LAMBDA d :
    Trim(Tuple([k \in 1..Len(d) |->
                  (d[k] + (IF \E j \in 1..(k - 1) :
                                /\ d[j] = Base
                                /\ \A m \in (j + 1)..(k - 1) : d[m] = Base - 1
                           THEN 1 ELSE 0)) % Base],
               Len(d))))

NAdd(a, b) ==
  Bind2(a, b, LAMBDA x, y :
    Carry(Tuple([k \in 1..Max(Len(x), Len(y)) |-> Limb(x, k) + Limb(y, k)],
                Max(Len(x), Len(y)))))

\* a - b for a >= b, by adding the complement of b
NSub(a, b) ==
  Bind2(a, b, LAMBDA x, y :
    Bind(Carry(Tuple([k \in 1..Len(x) |->
                        x[k] + (Base - 1 - Limb(y, k)) + (IF k = 1 THEN 1 ELSE 0)],
                     Len(x))),
         LAMBDA s : Trim(SubSeq(s, 1, Len(x)))))

RECURSIVE Dot(_, _, _, _, _)
\* the sum of a[j] * b[k + 1 - j] for j in lo..hi
Dot(a, b, k, lo, hi) ==
  IF lo > hi THEN 0
  ELSE IF lo = hi THEN a[lo] * b[k + 1 - lo]
  ELSE Dot(a, b, k, lo, (lo + hi) \div 2) + Dot(a, b, k, (lo + hi) \div 2 + 1, hi)

NMul(a, b) ==
  Bind2(a, b, LAMBDA x, y :
    IF Len(x) = 0 \/ Len(y) = 0 THEN <<>>
    ELSE Carry(Tuple([k \in 1..(Len(x) + Len(y) - 1) |->
                        Dot(x, y, k, Max(1, k + 1 - Len(y)), Min(Len(x), k))],
                     Len(x) + Len(y) - 1)))

RECURSIVE NPow(_, _)
\* a ** n by squaring; a is a bound value
NPow(a, n) ==
  IF n = 0 THEN <<1>>
  ELSE Bind(NPow(a, n \div 2), LAMBDA h :
         Bind(NMul(h, h), LAMBDA h2 : IF n % 2 = 1 THEN NMul(h2, a) ELSE h2))

RECURSIVE TopDiff(_, _, _, _)
\* the largest index in lo..hi where a and b differ (one exists)
TopDiff(a, b, lo, hi) ==
  IF lo >= hi THEN lo
  ELSE IF \E k \in ((lo + hi + 1) \div 2)..hi : a[k] # b[k]
       THEN TopDiff(a, b, (lo + hi + 1) \div 2, hi)
       ELSE TopDiff(a, b, lo, (lo + hi + 1) \div 2 - 1)

NLess(a, b) ==
  Bind2(a, b, LAMBDA x, y :
    IF Len(x) # Len(y) THEN Len(x) < Len(y)
    ELSE IF x = y THEN FALSE
    ELSE Bind(TopDiff(x, y, 1, Len(x)), LAMBDA i : x[i] < y[i]))

(***************************************************************************)
(* Signed integers [neg, mag] (zero is never negative).                    *)
(***************************************************************************)
ZMake(neg, mag) == Bind(mag, LAMBDA m : [neg |-> neg /\ m # <<>>, mag |-> m])

ZOf(k) == IF k < 0 THEN ZMake(TRUE, NatOf(-k)) ELSE ZMake(FALSE, NatOf(k))

ZNeg(x) == Bind(x, LAMBDA u : ZMake(~u.neg, u.mag))

ZAdd(x, y) ==
  Bind2(x, y, LAMBDA u, v :
    IF u.neg = v.neg THEN ZMake(u.neg, NAdd(u.mag, v.mag))
    ELSE IF NLess(u.mag, v.mag) THEN ZMake(v.neg, NSub(v.mag, u.mag))
    ELSE ZMake(u.neg, NSub(u.mag, v.mag)))

ZMul(x, y) ==
  Bind2(x, y, LAMBDA u, v : ZMake(u.neg # v.neg, NMul(u.mag, v.mag)))

ZLess(x, y) ==
  Bind2(x, y, LAMBDA u, v :
    IF u.neg # v.neg THEN u.neg
    ELSE IF u.neg THEN NLess(v.mag, u.mag)
    ELSE NLess(u.mag, v.mag))

(***************************************************************************)
(* Float values: [exc, num, den] with den > 0.  exc is "" for a number and *)
(* the exception's name for the outcome of an expression that raised;      *)
(* every operator hands an operand's exception on, as Python's evaluation  *)
(* of the enclosing expression does.                                       *)
(***************************************************************************)
\* the number num / den; zero has the denominator one
Ratio(num, den) ==
  Bind(num, LAMBDA n :
    [exc |-> "", num |-> n, den |-> IF n.mag = <<>> THEN <<1>> ELSE den])

Float(k) == [exc |-> "", num |-> ZOf(k), den |-> <<1>>]

ZeroDivisionError == [exc |-> "ZeroDivisionError", num |-> ZOf(0), den |-> <<1>>]

None == [exc |-> "None", num |-> ZOf(0), den |-> <<1>>]

Raised(x) == x.exc # ""

IsZero(x) == x.num.mag = <<>>

\* x > 0
Positive(x) == Bind(x, LAMBDA u : ~u.num.neg /\ ~IsZero(u))

\* the numerator of x over the product of the denominators of x and y
OnDen(x, y) == [neg |-> x.num.neg, mag |-> NMul(x.num.mag, y.den)]

\* x + y
Add(x, y) ==
  Bind2(x, y, LAMBDA u, v :
    IF Raised(u) THEN u ELSE IF Raised(v) THEN v
    ELSE IF u.den = v.den
         THEN Ratio(ZAdd(u.num, v.num), u.den)
         ELSE Ratio(ZAdd(OnDen(u, v), OnDen(v, u)), NMul(u.den, v.den)))

\* x - y
Sub(x, y) ==
  Bind2(x, y, LAMBDA u, v :
    IF Raised(u) THEN u ELSE IF Raised(v) THEN v
    ELSE Add(u, [v EXCEPT !.num = ZNeg(v.num)]))

\* x * y
Mul(x, y) ==
  Bind2(x, y, LAMBDA u, v :
    IF Raised(u) THEN u ELSE IF Raised(v) THEN v
    ELSE Ratio(ZMul(u.num, v.num), NMul(u.den, v.den)))

\* x / y: float division by zero raises ZeroDivisionError
Div(x, y) ==
  Bind2(x, y, LAMBDA u, v :
    IF Raised(u) THEN u ELSE IF Raised(v) THEN v
    ELSE IF IsZero(v) THEN ZeroDivisionError
    ELSE Ratio(ZMake(u.num.neg # v.num.neg, NMul(u.num.mag, v.den)),
               NMul(u.den, v.num.mag)))

\* x ** n for an int n >= 0 (0.0 ** 0 is 1.0)
Pow(x, n) ==
  Bind(x, LAMBDA u :
    IF Raised(u) THEN u
    ELSE Ratio(ZMake(u.num.neg /\ n % 2 = 1, NPow(u.num.mag, n)),
               NPow(u.den, n)))

\* x == y and x < y, on numbers
Eq(x, y) == Bind2(x, y, LAMBDA u, v : OnDen(u, v) = OnDen(v, u))

Less(x, y) == Bind2(x, y, LAMBDA u, v : ZLess(OnDen(u, v), OnDen(v, u)))

Leq(x, y) == ~Less(y, x)

(***************************************************************************)
(* The widgets.                                                            *)
(***************************************************************************)
Versions == {"v3", "v4"}

\* st.selectbox("Compound Frequency", [...]): the options offered
FrequencyOptions == {"Annually", "Quarterly", "Monthly", "Daily"}

\* frequency_map without the entry of the last option
frequency_map_short == [Annually |-> 1, Quarterly |-> 4, Monthly |-> 12]

\* the dict indexed by frequency_option
frequency_map == [Annually |-> 1, Quarterly |-> 4, Monthly |-> 12, Daily |-> 365]

\* the widgets' values when a session starts
Defaults ==
  [initial |-> 0, monthly |-> 0, years |-> 1, interest |-> 0,
   range_offset |-> 0, frequency_option |-> "Annually"]

(***************************************************************************)
(* The Calculate handler.                                                  *)
(***************************************************************************)
\* f"{x:.2f}" of a whole number: its digits, as the number of hundredths
Fmt2(x) == x * 100

\* range(0, years + 1)
year_range(years) == Tuple([k \in 1..(years + 1) |-> k - 1], years + 1)

\* pd.DataFrame(): no column
EmptyFrame == <<>>

\* df[name] = values
SetColumn(df, name, values) == (name :> values) @@ df

Rates(in) ==
  IF in.range_offset = 0
  THEN <<in.interest>>
  ELSE <<in.interest - in.range_offset, in.interest,
         in.interest + in.range_offset>>

Labels(in) ==
  LET rates == Rates(in)
  IN IF in.range_offset = 0
     THEN << <<"Future Value (", Fmt2(in.interest), "%)">> >>
     ELSE << <<"Variance Below (", Fmt2(rates[1]), "%)">>,
             <<"Future Value (", Fmt2(rates[2]), "%)">>,
             <<"Variance Above (", Fmt2(rates[3]), "%)">> >>

\* r = rate / 100
RateFraction(rate) == Div(Float(rate), Float(100))

\* Growth with the rate subtracted
GrowthMinus(r, compound_per_year, t) ==
  Pow(Sub(Float(1), Div(r, Float(compound_per_year))), compound_per_year * t)

\* Growth over t periods instead of compound_per_year * t
GrowthYearly(r, compound_per_year, t) ==
  Pow(Add(Float(1), Div(r, Float(compound_per_year))), t)

\* (1 + r / compound_per_year) ** (compound_per_year * t)
Growth(r, compound_per_year, t) ==
  Pow(Add(Float(1), Div(r, Float(compound_per_year))), compound_per_year * t)

\* future_val
FutureVal(in, r, compound_per_year, t) ==
  Mul(Float(in.initial), Growth(r, compound_per_year, t))

\* monthly * (((1 + r / cpy) ** (cpy * t) - 1) / (r / cpy))
Annuity(in, r, compound_per_year, t) ==
  Mul(Float(in.monthly),
      Div(Sub(Growth(r, compound_per_year, t), Float(1)),
          Div(r, Float(compound_per_year))))

\* monthly * t * compound_per_year
Principal(in, compound_per_year, t) ==
  Mul(Mul(Float(in.monthly), Float(t)), Float(compound_per_year))

\* contribution_val: v3 has the annuity term alone, v4 guards it by r > 0
ContributionVal(version, in, r, compound_per_year, t) ==
  IF version = "v3" THEN Annuity(in, r, compound_per_year, t)
  ELSE IF Positive(r) THEN Annuity(in, r, compound_per_year, t)
  ELSE Principal(in, compound_per_year, t)

\* total = future_val + contribution_val
Total(version, in, rate, compound_per_year, t) ==
  Bind(RateFraction(rate), LAMBDA r :
    Add(FutureVal(in, r, compound_per_year, t),
        ContributionVal(version, in, r, compound_per_year, t)))

\* values, after the inner loop over year_range
Values(version, in, rate, compound_per_year) ==
  Tuple([k \in 1..(in.years + 1) |->
           Total(version, in, rate, compound_per_year, k - 1)], in.years + 1)

\* [initial + monthly * t * compound_per_year for t in year_range]
Contributions(in, compound_per_year) ==
  Tuple([k \in 1..(in.years + 1) |->
           Add(Float(in.initial), Principal(in, compound_per_year, k - 1))],
        in.years + 1)

\* one pass of the loop over enumerate(rates): a column of values, and in
\* v3 one more of contributions
ScenarioColumn(version, in, compound_per_year, df, i) ==
  Bind(SetColumn(df, Labels(in)[i],
                 Values(version, in, Rates(in)[i], compound_per_year)),
       LAMBDA withValues :
         IF version = "v3"
         THEN SetColumn(withValues,
                        <<"Contributions (", Fmt2(Rates(in)[i]), "%)">>,
                        Contributions(in, compound_per_year))
         ELSE withValues)

RECURSIVE ScenarioColumns(_, _, _, _, _)
\* the loop over enumerate(rates), from index i on
ScenarioColumns(version, in, compound_per_year, df, i) ==
  IF i > Len(Rates(in)) THEN df
  ELSE ScenarioColumns(version, in, compound_per_year,
                       ScenarioColumn(version, in, compound_per_year, df, i),
                       i + 1)

\* the exception the loop raises: that of the first value that raised, if any
LoopException(in, scenarios) ==
  Bind2(Labels(in), scenarios, LAMBDA labels, df :
    Bind({<<i, k>> \in (1..Len(labels)) \X (1..(in.years + 1)) :
            Raised(df[labels[i]][k])},
         LAMBDA bad :
           IF bad = {} THEN ""
           ELSE Bind(CHOOSE p \in bad :
                       \A q \in bad :
                         p[1] < q[1] \/ (p[1] = q[1] /\ p[2] <= q[2]),
                     LAMBDA first : df[labels[first[1]]][first[2]].exc)))

\* a script run that raised: Streamlit shows the exception, and nothing the
\* statements after it would have rendered
ErrorPage(exc) ==
  [status |-> exc, labels |-> <<>>, df |-> EmptyFrame, final_value |-> None]

\* a script run without a click: the "if calculate_clicked" block is skipped
NoResult ==
  [status |-> "idle", labels |-> <<>>, df |-> EmptyFrame, final_value |-> None]

\* the statements after the loop: the Year and Total Contributions columns,
\* and final_value = df[labels[len(labels) // 2]].iloc[-1]
Rendered(in, compound_per_year, scenarios) ==
  Bind(SetColumn(SetColumn(scenarios, <<"Year">>, year_range(in.years)),
                 <<"Total Contributions">>,
                 Contributions(in, compound_per_year)),
       LAMBDA df :
         [status |-> "ok", labels |-> Labels(in), df |-> df,
          final_value |-> df[Labels(in)[Len(Labels(in)) \div 2 + 1]][in.years + 1]])

\* the block under "if calculate_clicked" / "if st.button(...)"
Handler(version, in) ==
  IF in.frequency_option \notin DOMAIN frequency_map
  THEN ErrorPage("KeyError")
  ELSE Bind(ScenarioColumns(version, in, frequency_map[in.frequency_option],
                            EmptyFrame, 1),
            LAMBDA scenarios :
              Bind(LoopException(in, scenarios), LAMBDA exc :
                IF exc # "" THEN ErrorPage(exc)
                ELSE Rendered(in, frequency_map[in.frequency_option], scenarios)))

(***************************************************************************)
(* The explored widget values: bounded samples of the number inputs'       *)
(* ranges (whole dollars, whole percents), every option of the selectbox.  *)
(***************************************************************************)
MaxYears == 2

\* exact compounding over more periods than this is explored at rate 0 only
MaxPeriods == 36

Fields(scope_) ==
  IF scope_ = "main" THEN
    [initial |-> {0, 1000}, monthly |-> {-100, 0, 100}, years |-> 1..MaxYears,
     interest |-> {0, 5}, range_offset |-> {0, 2, 5, 10},
     frequency_option |-> FrequencyOptions]
  ELSE IF scope_ = "example" THEN
    [initial |-> {0, 1000}, monthly |-> {0, 100}, years |-> {1, 10},
     interest |-> {0, 7}, range_offset |-> {0, 2},
     frequency_option |-> {"Annually", "Monthly"}]
  ELSE
    [initial |-> {1000}, monthly |-> {0, 100}, years |-> {1, 2},
     interest |-> {0, 5}, range_offset |-> {0, 10},
     frequency_option |-> {"Annually", "Quarterly"}]

Tractable(in) ==
  \/ in.frequency_option \notin DOMAIN frequency_map
  \/ frequency_map[in.frequency_option] * in.years <= MaxPeriods
  \/ in.interest = 0 /\ in.range_offset = 0
  \/ in.years >= 10 /\ in.range_offset = 0

Explored(scope_, in) ==
  /\ \A f \in DOMAIN in : in[f] \in Fields(scope_)[f]
  /\ Tractable(in)

(***************************************************************************)
(* The state machine: widget changes and clicks on Calculate.  Streamlit   *)
(* reruns the script on every interaction; only a click runs the handler.  *)
(***************************************************************************)
\* observer's record: the inputs and output of a request kept for comparison,
\* and whether requests with other inputs were made since
NoRequest ==
  [inputs |-> Defaults, page |-> [v \in Versions |-> NoResult],
   made |-> FALSE, others |-> FALSE]

Start(scope_) ==
  /\ scope = scope_
  /\ inputs = Defaults
  /\ page = [v \in Versions |-> NoResult]
  /\ prev = NoRequest

Init == Start("main")

\* a rerun that keeps the last result on the page
RerunKeeps(p) == p

\* the rerun after a widget change: calculate_clicked is False
Rerun(p) == NoResult

Change(field, value) ==
  /\ value # inputs[field]
  /\ Explored(scope, [inputs EXCEPT ![field] = value])
  /\ inputs' = [inputs EXCEPT ![field] = value]
  /\ page' = [v \in Versions |-> Rerun(page[v])]
  /\ UNCHANGED <<scope, prev>>

SetInitial == \E x \in Fields(scope).initial : Change("initial", x)

SetMonthly == \E x \in Fields(scope).monthly : Change("monthly", x)

SetYears == \E x \in Fields(scope).years : Change("years", x)

SetInterest == \E x \in Fields(scope).interest : Change("interest", x)

SetRangeOffset == \E x \in Fields(scope).range_offset : Change("range_offset", x)

SelectFrequency ==
  \E x \in Fields(scope).frequency_option : Change("frequency_option", x)

Calculate ==
  /\ page' = [v \in Versions |-> Handler(v, inputs)]
  /\ prev' = IF prev.made /\ prev.inputs # inputs
              THEN [prev EXCEPT !.others = TRUE] ELSE prev
  /\ UNCHANGED <<scope, inputs>>

\* observer: keep what the page shows for the current inputs
Remember ==
  /\ \E v \in Versions : page[v].status # "idle"
  /\ prev' = [inputs |-> inputs, page |-> page, made |-> TRUE, others |-> FALSE]
  /\ UNCHANGED <<scope, inputs, page>>

Next ==
  \/ SetInitial
  \/ SetMonthly
  \/ SetYears
  \/ SetInterest
  \/ SetRangeOffset
  \/ SelectFrequency
  \/ Calculate

Spec == Init /\ [][Next]_vars

InitExample == Start("example")

SpecExample == InitExample /\ [][Next]_vars

InitHistory == Start("history")

NextHistory == Next \/ Remember

SpecHistory == InitHistory /\ [][NextHistory]_vars

(***************************************************************************)
(* The claims.  A version's page is "requested" once a click on Calculate  *)
(* has run its handler on the current inputs, and "shown" when that run    *)
(* completed and rendered its results.                                     *)
(***************************************************************************)
Requested(v) == page[v].status # "idle"

Shown(v) == page[v].status = "ok"

\* compounding periods per year of the current inputs
Periods == frequency_map[inputs.frequency_option]

\* the value series of the i-th scenario on version v's page
Series(v, i) == page[v].df[page[v].labels[i]]

ScenarioKinds == {"Future Value (", "Variance Below (", "Variance Above ("}

\* the scenario columns of version v's results
Scenarios(v) == {c \in DOMAIN page[v].df : c[1] \in ScenarioKinds}

SameSeries(a, b) == Len(a) = Len(b) /\ \A k \in 1..Len(a) : Eq(a[k], b[k])

NonDecreasing(s) == \A k \in 1..(Len(s) - 1) : Leq(s[k], s[k + 1])

\* c hundredths as a number
Cents(c) == Div(Float(c), Float(100))

\* |x - c / 100| <= 1e-2
Within(x, c) == Leq(Cents(c - 1), x) /\ Leq(x, Cents(c + 1))

\* version v completed with one scenario whose value at every year t is
\* initial + monthly * t * periods
ZeroRateAt(v) ==
  /\ Shown(v)
  /\ Len(page[v].labels) = 1
  /\ \A t \in 0..inputs.years :
       Eq(Series(v, 1)[t + 1],
          Float(inputs.initial + inputs.monthly * t * Periods))

\* C1: with rate 0 and variance 0, in each version, a calculation completes
\* without a division by zero and the single scenario's value at every year t
\* is initial + monthly * t * compounding periods per year.
ZeroRateProperty ==
  \A v \in Versions :
    (Requested(v) /\ inputs.interest = 0 /\ inputs.range_offset = 0)
      => ZeroRateAt(v)

\* C1, the failing case: at rate 0 and variance 0 v3 raises ZeroDivisionError
\* where v4 shows the zero-rate values
ZeroRateRaises ==
  /\ inputs.interest = 0 /\ inputs.range_offset = 0 /\ inputs.monthly = 100
  /\ page["v3"].status = "ZeroDivisionError"
  /\ ZeroRateAt("v4")

\* version v produced exactly the scenarios the variance asks for, rates
\* ascending and labelled below / central / above
ScenarioCountAt(v) ==
  /\ Cardinality(Scenarios(v)) = (IF inputs.range_offset = 0 THEN 1 ELSE 3)
  /\ Scenarios(v) = {page[v].labels[i] : i \in 1..Len(page[v].labels)}
  /\ inputs.range_offset = 0 =>
       page[v].labels = << <<"Future Value (", Fmt2(inputs.interest), "%)">> >>
  /\ inputs.range_offset > 0 =>
       /\ page[v].labels =
            << <<"Variance Below (", Fmt2(inputs.interest - inputs.range_offset), "%)">>,
               <<"Future Value (", Fmt2(inputs.interest), "%)">>,
               <<"Variance Above (", Fmt2(inputs.interest + inputs.range_offset), "%)">> >>
       /\ page[v].labels[1][2] < page[v].labels[2][2]
       /\ page[v].labels[2][2] < page[v].labels[3][2]

\* C2: for every input a calculation produces exactly 1 scenario when the
\* variance is 0 and exactly 3 when it is positive, the three at the rates
\* central - variance < central < central + variance in this order, labelled
\* below / central / above.
ScenarioCount == \A v \in Versions : Requested(v) => ScenarioCountAt(v)

\* C2, the failing case: a variance equal to the rate makes the lower rate 0,
\* and v3 raises and produces no scenario where v4 produces three
NoScenarioProduced ==
  /\ inputs.range_offset > 0 /\ inputs.range_offset = inputs.interest
  /\ page["v3"].status = "ZeroDivisionError"
  /\ Cardinality(Scenarios("v3")) = 0
  /\ ScenarioCountAt("v4")

\* C2 on the calculations that complete
ScenarioCountWhenShown == \A v \in Versions : Shown(v) => ScenarioCountAt(v)

\* C3: for every input v3 and v4 yield the same outcome: the same value at
\* every year of every scenario, the same Total Contributions series and the
\* same headline value, and one raises an error only if the other does.
VersionsAgree ==
  /\ page["v3"].status = page["v4"].status
  /\ page["v3"].labels = page["v4"].labels
  /\ \A i \in 1..Len(page["v3"].labels) : SameSeries(Series("v3", i), Series("v4", i))
  /\ Shown("v3") => SameSeries(page["v3"].df[<<"Total Contributions">>],
                               page["v4"].df[<<"Total Contributions">>])
  /\ Eq(page["v3"].final_value, page["v4"].final_value)

\* C3, a failing case without an error: both versions complete and their
\* lower scenarios differ
VersionsDiffer ==
  /\ Shown("v3") /\ Shown("v4")
  /\ page["v3"].labels = page["v4"].labels
  /\ ~SameSeries(Series("v3", 1), Series("v4", 1))

\* the value at year t under the rate (in percent) taken literally: the lump
\* sum's growth plus the annuity term
LiteralValue(rate, t) ==
  Bind(RateFraction(rate), LAMBDA r :
    Add(FutureVal(inputs, r, Periods, t), Annuity(inputs, r, Periods, t)))

\* the value at year t with the contributions not growing at all
ValueAsIfZero(rate, t) ==
  Bind(RateFraction(rate), LAMBDA r :
    Add(FutureVal(inputs, r, Periods, t), Principal(inputs, Periods, t)))

\* C4: when the variance exceeds the rate, the lower scenario is computed at
\* the literal negative rate rate - variance: neither the lump-sum term nor
\* the contribution term of its value is computed as if the rate were 0.
NegativeRateLiteral ==
  \A v \in Versions :
    (Shown(v) /\ inputs.range_offset > inputs.interest) =>
      /\ page[v].labels[1] =
           <<"Variance Below (", Fmt2(inputs.interest - inputs.range_offset), "%)">>
      /\ \A t \in 0..inputs.years :
           Eq(Series(v, 1)[t + 1],
              LiteralValue(inputs.interest - inputs.range_offset, t))

\* C4, the failing case: v4's lower scenario at a negative rate holds the
\* contributions of rate 0, which the literal rate does not give
ContributionAsIfZero ==
  /\ Shown("v4") /\ inputs.range_offset > inputs.interest
  /\ \A t \in 0..inputs.years :
       Eq(Series("v4", 1)[t + 1],
          ValueAsIfZero(inputs.interest - inputs.range_offset, t))
  /\ \E t \in 0..inputs.years :
       ~Eq(Series("v4", 1)[t + 1],
           LiteralValue(inputs.interest - inputs.range_offset, t))

\* C5 as amended: for monthly >= 0 (and initial >= 0, rate >= 0), the value
\* series of every produced scenario whose own rate (central, central -
\* variance or central + variance) is >= 0 is non-decreasing over 0..years.
MonotoneAtNonNegativeRates ==
  \A v \in Versions :
    (Shown(v) /\ inputs.monthly >= 0 /\ inputs.interest >= 0 /\ inputs.initial >= 0) =>
      \A i \in 1..Len(page[v].labels) :
        page[v].labels[i][2] >= 0 => NonDecreasing(Series(v, i))

\* C5 as stated: for monthly >= 0 and rate >= 0 the value series of each
\* produced scenario, the below-central one included, is non-decreasing.
Monotone ==
  \A v \in Versions :
    (Shown(v) /\ inputs.monthly >= 0 /\ inputs.interest >= 0 /\ inputs.initial >= 0) =>
      \A i \in 1..Len(page[v].labels) : NonDecreasing(Series(v, i))

\* C5's case: three scenarios produced by both versions from an initial
\* investment alone, the lower one at a negative rate and falling, the central
\* one growing
GrowthAndDecay ==
  /\ Shown("v3") /\ Shown("v4")
  /\ inputs.monthly = 0 /\ inputs.initial > 0
  /\ Len(page["v4"].labels) = 3
  /\ page["v4"].labels[1][2] < 0
  /\ ~NonDecreasing(Series("v4", 1))
  /\ Less(Series("v4", 2)[1], Series("v4", 2)[inputs.years + 1])

\* version v's results hold the baseline initial + monthly * t * periods on
\* the year indices 0..years, which every scenario series has too
BaselineAt(v) ==
  /\ <<"Total Contributions">> \in DOMAIN page[v].df
  /\ page[v].df[<<"Year">>] = [k \in 1..(inputs.years + 1) |-> k - 1]
  /\ Len(page[v].df[<<"Total Contributions">>]) = inputs.years + 1
  /\ \A t \in 0..inputs.years :
       Eq(page[v].df[<<"Total Contributions">>][t + 1],
          Float(inputs.initial + inputs.monthly * t * Periods))
  /\ \A i \in 1..Len(page[v].labels) : Len(Series(v, i)) = inputs.years + 1

\* C6: for every input the Total Contributions baseline at every year t in
\* 0..years is initial + monthly * t * periods, whatever the rate and the
\* variance, on the same year indices as every scenario series.
BaselineRateIndependent == \A v \in Versions : Requested(v) => BaselineAt(v)

\* C6, the failing case: with contributions and a central rate of 0 between a
\* negative and a positive scenario, v3 raises and shows no baseline where v4
\* shows it
NoBaselineProduced ==
  /\ inputs.interest = 0 /\ inputs.range_offset > 0 /\ inputs.monthly # 0
  /\ page["v3"].status = "ZeroDivisionError"
  /\ <<"Total Contributions">> \notin DOMAIN page["v3"].df
  /\ BaselineAt("v4")

\* C6 on the calculations that complete
BaselineWhenShown == \A v \in Versions : Shown(v) => BaselineAt(v)

\* version v displays a headline: the central scenario's value at year = years
HeadlineAt(v) ==
  /\ ~Raised(page[v].final_value)
  /\ <<"Future Value (", Fmt2(inputs.interest), "%)">> \in DOMAIN page[v].df
  /\ page[v].final_value =
       page[v].df[<<"Future Value (", Fmt2(inputs.interest), "%)">>][inputs.years + 1]

\* C7: for every input the headline value displayed after a calculation is
\* the value of the central scenario (the only one, or the middle one of
\* three) at year = years.
HeadlineIsCentral == \A v \in Versions : Requested(v) => HeadlineAt(v)

\* C7, the failing case: after a calculation at rate 0 with an initial
\* investment v3 displays the exception and no headline, v4 the headline
NoHeadlineDisplayed ==
  /\ inputs.interest = 0 /\ inputs.initial > 0
  /\ page["v3"].status = "ZeroDivisionError"
  /\ Raised(page["v3"].final_value)
  /\ HeadlineAt("v4")

\* C7 on the calculations that complete
HeadlineWhenShown == \A v \in Versions : Shown(v) => HeadlineAt(v)

\* an option the selectbox does not offer
Unsupported == "Weekly"

\* C8: a compounding frequency outside {1 (Annually), 4 (Quarterly),
\* 12 (Monthly), 365 (Daily)} makes the calculation raise the lookup's error
\* and produce no result; a frequency inside the set never raises it.
FrequencyLookup ==
  /\ inputs.frequency_option \in DOMAIN frequency_map
  /\ frequency_map[inputs.frequency_option] \in {1, 4, 12, 365}
  /\ \A v \in Versions :
       /\ page[v].status # "KeyError"
       /\ Handler(v, [inputs EXCEPT !.frequency_option = Unsupported])
            = ErrorPage("KeyError")

\* C8's case: a calculation made with the last option, compounding 365 times
\* a year
DailyCalculated ==
  /\ inputs.frequency_option = "Daily"
  /\ inputs.monthly # 0
  /\ Shown("v4")
  /\ Len(Series("v4", 1)) = inputs.years + 1

ExampleInputs ==
  [initial |-> 1000, monthly |-> 100, years |-> 10, interest |-> 7,
   range_offset |-> 0, frequency_option |-> "Monthly"]

\* C9 as amended: for initial=1000, monthly=100, years=10, rate=7, variance=0,
\* periods=12 the single scenario's year-0 value is 1000.00 and its year-10
\* value is 19318.14 within 1e-2.
ExampleValues ==
  \A v \in Versions :
    (Requested(v) /\ inputs = ExampleInputs) =>
      /\ Shown(v)
      /\ Len(page[v].labels) = 1
      /\ Eq(Series(v, 1)[1], Float(1000))
      /\ Within(Series(v, 1)[11], 1931814)

\* C9 as stated: the year-10 value is 18221.06 within 1e-2.
ExampleValuesAsStated ==
  \A v \in Versions :
    (Requested(v) /\ inputs = ExampleInputs) =>
      /\ Shown(v)
      /\ Len(page[v].labels) = 1
      /\ Eq(Series(v, 1)[1], Float(1000))
      /\ Within(Series(v, 1)[11], 1822106)

\* C9's case: both versions have calculated the example
ExampleCalculated ==
  /\ inputs = ExampleInputs
  /\ Shown("v3") /\ Shown("v4")
  /\ page["v3"].final_value = Series("v3", 1)[11]

====
